---- MODULE Spec2Model ----
(***************************************************************************)
(* Sparse experience replay: the training loop of src/main.py (train),     *)
(* the evaluation loop (test) and the episodic memory they use.            *)
(*                                                                         *)
(* The episodic memory class (baselines.replay.ReplayMemory, imported at   *)
(* src/main.py:5) is not part of the sources at hand; its push and sample  *)
(* are modelled from the specification's section 4.1 (reservoir-sampling   *)
(* insertion, uniform sampling with replacement, empty-memory error).      *)
(***************************************************************************)
EXTENDS Integers, Sequences, FiniteSets

(***************************************************************************)
(* Bounds of the model.                                                    *)
(***************************************************************************)
MaxCapacity == 2      \* capacities 1..MaxCapacity
MaxPeriod == 2        \* replay periods 1..MaxPeriod (and REPLAY_FREQ itself)
MaxSampleSize == 2    \* replay sample sizes 1..MaxSampleSize
MaxBatchSize == 2     \* --batch_size 1..MaxBatchSize
MaxExamples == 3      \* training set sizes 0..MaxExamples
MaxEpochs == 2        \* --epochs 0..MaxEpochs
MaxTestBatches == 2   \* held-out streams of 1..MaxTestBatches batches
MaxSeen == 5          \* examples pushed by direct calls of the memory

(***************************************************************************)
(* Program constants.                                                      *)
(***************************************************************************)
REPLAY_FREQ == 180

VARIABLES
    \* run configuration
    replay_freq,     \* the replay period tested at line 87 (REPLAY_FREQ)
    sample_size,     \* the sample_size passed to memory.sample at line 89
                     \* (64 in the source, scaled down to 1..MaxSampleSize)
    batch_size,      \* args.batch_size
    n_train,         \* number of examples of the training DataSet
    epochs,          \* args.epochs
    \* episodic memory object
    capacity,        \* C, fixed for the run
    memory,          \* memory.memory: the stored examples, a list
    n_seen,          \* N: examples observed by push so far
    draws,           \* the random draws of the pushes, recorded in the
                     \* fairness experiment only (0: appended without a draw)
    \* classifier model
    params,          \* version of the parameters: optimizer updates applied
    \* control
    pc,              \* position in train / test
    error,           \* the exception that left train, "" if none
    \* locals of train
    epoch, pulled, step, batch, content, source,
    nb_tr_examples, nb_tr_steps, train_loss_len,
    \* persisted checkpoints: epoch number -> what was written
    checkpoints,
    \* test: number of batches of the test DataLoader, batches scored so far,
    \* the running sum of the batch accuracies (a fraction <<num, den>>), the
    \* accuracy printed at line 188, and for every batch scored the number of
    \* examples whose label has the first largest logit and the batch's size
    n_test, t_steps, total_correct, result, scored,
    \* observation of the run: the calls of the current step in order (ops),
    \* the 1-based steps of the current epoch updated on a sampled batch
    \* (replayed) and on the live batch (lived), the total size of the latter
    \* batches (live_examples), the number of calls over the run (calls), the
    \* argument of the last push and the memory the last sample was called on
    ops, replayed, lived, live_examples, calls, last_pushed, sampled_from

cfgvars == <<replay_freq, sample_size, batch_size, n_train, epochs>>
memvars == <<capacity, memory, n_seen, draws>>
trainvars == <<epoch, pulled, step, batch, content, source,
               nb_tr_examples, nb_tr_steps, train_loss_len>>
obsvars == <<ops, replayed, lived, live_examples, calls, last_pushed, sampled_from>>
testvars == <<n_test, t_steps, total_correct, result, scored>>
vars == <<cfgvars, memvars, params, pc, error, trainvars, checkpoints, testvars, obsvars>>

(***************************************************************************)
(* Helpers.                                                                *)
(***************************************************************************)
Range(s) == {s[i] : i \in 1..Len(s)}

Min(a, b) == IF a < b THEN a ELSE b

\* Number of batches a DataLoader yields over n examples with batch size b
\* (drop_last is left at its default, False: the last batch may be short).
NumBatches(n, b) == (n + b - 1) \div b

\* The i-th batch (1-based) of the sequential DataLoader: examples are
\* identified by their index in the DataSet.
BatchAt(i, n, b) == [k \in 1..(Min(i * b, n) - (i - 1) * b) |-> (i - 1) * b + k]

CallNames == {"push", "sample", "zero_grad", "classify", "backward", "optimizer_step", "infer"}

Called(c, name) == [c EXCEPT ![name] = @ + 1]

(***************************************************************************)
(* Episodic memory (specification section 4.1).                            *)
(***************************************************************************)
\* Variant: every example is appended, whatever the capacity.
PushExample_unbounded(mem, n, cap, ex) == {<<Append(mem, ex), n + 1>>}

\* Variant: at capacity the slot is drawn among the stored slots only.
SlotDraws_stored_only(mem, n, cap) == IF Len(mem) < cap THEN {0} ELSE 1..cap

\* The equally likely draws of one insertion, N counting the example being
\* inserted: none below capacity (written 0), a slot of 1..N at capacity.
SlotDraws(mem, n, cap) == IF Len(mem) < cap THEN {0} ELSE 1..(n + 1)

\* Variant: at capacity an example whose draw is beyond C is appended.
Insert_grows(mem, cap, ex, j) ==
    IF Len(mem) < cap \/ j > cap
    THEN Append(mem, ex)
    ELSE [mem EXCEPT ![j] = ex]

\* The memory after the insertion of ex with draw j.
Insert(mem, cap, ex, j) ==
    IF Len(mem) < cap
    THEN Append(mem, ex)
    ELSE IF j <= cap /\ j <= Len(mem) THEN [mem EXCEPT ![j] = ex] ELSE mem

\* Reservoir insertion of one example: N is incremented; below capacity the
\* example is appended; at capacity a slot j is drawn uniformly from 1..N
\* and the example replaces slot j when j <= C (probability C/N), and is
\* dropped otherwise.  The result is the set of possible <<memory, N>>.
PushExample(mem, n, cap, ex) ==
    {<<Insert(mem, cap, ex, j), n + 1>> : j \in SlotDraws(mem, n, cap)}

RECURSIVE PushFrom(_, _, _)
PushFrom(states, cap, b) ==
    IF b = <<>>
    THEN states
    ELSE PushFrom(UNION {PushExample(s[1], s[2], cap, Head(b)) : s \in states},
                  cap, Tail(b))

\* push(batch): reservoir insertion of every example of the batch, in order.
PushResults(mem, n, cap, b) == PushFrom({<<mem, n>>}, cap, b)

\* Variant: the draws are without replacement, at most Len(mem) of them.
SampleResults_without_replacement(mem, k) ==
    IF mem = <<>>
    THEN {}
    ELSE {[i \in 1..Min(k, Len(mem)) |-> mem[d[i]]] :
            d \in {f \in [1..Min(k, Len(mem)) -> 1..Len(mem)] :
                     \A i, j \in DOMAIN f : i # j => f[i] # f[j]}}

\* Variant: an empty memory yields an empty batch instead of an error.
SampleResults_empty_batch(mem, k) ==
    IF mem = <<>>
    THEN {<<>>}
    ELSE {[i \in 1..k |-> mem[d[i]]] : d \in [1..k -> 1..Len(mem)]}

\* sample(sample_size): sample_size draws, uniform with replacement, from
\* the current contents; the empty set stands for the empty-memory error.
SampleResults(mem, k) ==
    IF mem = <<>>
    THEN {}
    ELSE {[i \in 1..k |-> mem[d[i]]] : d \in [1..k -> 1..Len(mem)]}

(***************************************************************************)
(* The replay decision of line 87; step is enumerate's 0-based index.      *)
(***************************************************************************)
\* Python's a % p for p # 0: the result has the sign of p.
PyMod(a, p) == IF p > 0 THEN a % p ELSE -((-a) % (-p))

\* Variant: the 0-based index is tested.
IsReplayStep_zero_based(s, p) == s % p = 0

IsReplayStep(s, p) == PyMod(s + 1, p) = 0

(***************************************************************************)
(* Initial state: the process after argument parsing, model and memory     *)
(* constructed (lines 210-212), train not yet called.                      *)
(***************************************************************************)
Init ==
    /\ capacity \in 1..MaxCapacity
    /\ replay_freq \in (1..MaxPeriod) \cup {REPLAY_FREQ}
    /\ sample_size \in 1..MaxSampleSize
    /\ batch_size \in 1..MaxBatchSize
    /\ n_train \in 0..MaxExamples
    /\ epochs \in 0..MaxEpochs
    /\ n_test = 0
    /\ memory = <<>>
    /\ n_seen = 0
    /\ draws = <<>>
    /\ params = 0
    /\ pc = "main"
    /\ error = ""
    /\ epoch = 0
    /\ pulled = 0
    /\ step = 0
    /\ batch = <<>>
    /\ content = <<>>
    /\ source = "none"
    /\ nb_tr_examples = 0
    /\ nb_tr_steps = 0
    /\ train_loss_len = 0
    /\ checkpoints = <<>>
    /\ t_steps = 0
    /\ total_correct = <<0, 1>>
    /\ result = <<>>
    /\ scored = <<>>
    /\ ops = <<>>
    /\ replayed = {}
    /\ lived = {}
    /\ live_examples = 0
    /\ calls = [c \in CallNames |-> 0]
    /\ last_pushed = <<>>
    /\ sampled_from = <<>>

(***************************************************************************)
(* train(order, model, memory)                                             *)
(***************************************************************************)
\* Lines 213, 37-68: train is entered; data loader and optimizer are built.
TrainBegin ==
    /\ pc = "main"
    /\ pc' = "epoch_loop"
    /\ epoch' = 0
    /\ train_loss_len' = 0
    /\ UNCHANGED <<cfgvars, memvars, params, error, pulled, step, batch, content, source,
                   nb_tr_examples, nb_tr_steps, checkpoints, testvars, obsvars>>

\* Variant: every epoch starts on a fresh, empty memory.
EpochBegin_fresh_memory ==
    /\ pc = "epoch_loop"
    /\ epoch < epochs
    /\ pc' = "next_batch"
    /\ nb_tr_examples' = 0
    /\ nb_tr_steps' = 0
    /\ pulled' = 0
    /\ memory' = <<>>
    /\ n_seen' = 0
    /\ replayed' = {}
    /\ lived' = {}
    /\ live_examples' = 0
    /\ ops' = <<>>
    /\ UNCHANGED <<cfgvars, capacity, draws, params, error, epoch, step, batch, content, source,
                   train_loss_len, checkpoints, testvars, calls, last_pushed, sampled_from>>

\* Lines 69-76: the next epoch starts; the tracking variables are reset.
EpochBegin ==
    /\ pc = "epoch_loop"
    /\ epoch < epochs
    /\ pc' = "next_batch"
    /\ nb_tr_examples' = 0
    /\ nb_tr_steps' = 0
    /\ pulled' = 0
    /\ replayed' = {}
    /\ lived' = {}
    /\ live_examples' = 0
    /\ ops' = <<>>
    /\ UNCHANGED <<cfgvars, memvars, params, error, epoch, step, batch, content, source,
                   train_loss_len, checkpoints, testvars, calls, last_pushed, sampled_from>>

\* Variant: the step counter runs on over the epochs.
NextBatch_global_step ==
    /\ pc = "next_batch"
    /\ pulled < NumBatches(n_train, batch_size)
    /\ step' = calls["push"]
    /\ pulled' = pulled + 1
    /\ batch' = BatchAt(pulled + 1, n_train, batch_size)
    /\ content' = <<>>
    /\ source' = "none"
    /\ ops' = <<>>
    /\ pc' = "push"
    /\ UNCHANGED <<cfgvars, memvars, params, error, epoch,
                   nb_tr_examples, nb_tr_steps, train_loss_len, checkpoints, testvars,
                   replayed, lived, live_examples, calls, last_pushed, sampled_from>>

\* Lines 78-83: enumerate yields the next batch; it is deep-copied.
NextBatch ==
    /\ pc = "next_batch"
    /\ pulled < NumBatches(n_train, batch_size)
    /\ step' = pulled
    /\ pulled' = pulled + 1
    /\ batch' = BatchAt(pulled + 1, n_train, batch_size)
    /\ content' = <<>>
    /\ source' = "none"
    /\ ops' = <<>>
    /\ pc' = "push"
    /\ UNCHANGED <<cfgvars, memvars, params, error, epoch,
                   nb_tr_examples, nb_tr_steps, train_loss_len, checkpoints, testvars,
                   replayed, lived, live_examples, calls, last_pushed, sampled_from>>

\* Variant: the push sits in the else branch, only live-trained batches
\* are pushed.
PushToMemory_live_only ==
    /\ pc = "push"
    /\ IF IsReplayStep(step, replay_freq)
       THEN UNCHANGED <<memory, n_seen, last_pushed, ops, calls>>
       ELSE /\ \E r \in PushResults(memory, n_seen, capacity, batch) :
                  /\ memory' = r[1]
                  /\ n_seen' = r[2]
            /\ last_pushed' = batch
            /\ ops' = Append(ops, "push")
            /\ calls' = Called(calls, "push")
    /\ pc' = "decide"
    /\ UNCHANGED <<cfgvars, capacity, draws, params, error, trainvars, checkpoints, testvars,
                   replayed, lived, live_examples, sampled_from>>

\* Line 85: memory.push(batch_cp).
PushToMemory ==
    /\ pc = "push"
    /\ \E r \in PushResults(memory, n_seen, capacity, batch) :
          /\ memory' = r[1]
          /\ n_seen' = r[2]
    /\ last_pushed' = batch
    /\ ops' = Append(ops, "push")
    /\ calls' = Called(calls, "push")
    /\ pc' = "decide"
    /\ UNCHANGED <<cfgvars, capacity, draws, params, error, trainvars, checkpoints, testvars,
                   replayed, lived, live_examples, sampled_from>>

\* Lines 87-89: the step is a replay step; the training batch is sampled
\* from the memory.  An empty memory makes sample fail and train is left.
ReplayBranch ==
    /\ pc = "decide"
    /\ replay_freq # 0
    /\ IsReplayStep(step, replay_freq)
    /\ ops' = Append(ops, "sample")
    /\ calls' = Called(calls, "sample")
    /\ sampled_from' = memory
    /\ IF SampleResults(memory, sample_size) = {}
       THEN /\ pc' = "raised"
            /\ error' = "EmptyMemoryError"
            /\ UNCHANGED <<content, source>>
       ELSE /\ content' \in SampleResults(memory, sample_size)
            /\ source' = "replay"
            /\ pc' = "update"
            /\ UNCHANGED error
    /\ UNCHANGED <<cfgvars, memvars, params, epoch, pulled, step, batch,
                   nb_tr_examples, nb_tr_steps, train_loss_len, checkpoints, testvars,
                   replayed, lived, live_examples, last_pushed>>

\* Lines 90-95: the step is a live step; the training batch is the batch
\* just pulled.
LiveBranch ==
    /\ pc = "decide"
    /\ replay_freq # 0
    /\ ~IsReplayStep(step, replay_freq)
    /\ content' = batch
    /\ source' = "live"
    /\ ops' = Append(ops, "unpack")
    /\ pc' = "update"
    /\ UNCHANGED <<cfgvars, memvars, params, error, epoch, pulled, step, batch,
                   nb_tr_examples, nb_tr_steps, train_loss_len, checkpoints, testvars,
                   replayed, lived, live_examples, calls, last_pushed, sampled_from>>

\* Variant: only a live batch is counted.
TrackedSize_live_only(c) == IF source = "live" THEN Len(c) ELSE 0

\* The size added to nb_tr_examples at line 114: content.size(0).
TrackedSize(c) == Len(c)

\* Variant: the gradients are not cleared.
UpdateCalls_no_zero_grad == <<"classify", "backward", "optimizer_step">>

\* The calls of lines 103-110, in program order.
UpdateCalls == <<"zero_grad", "classify", "backward", "optimizer_step">>

RECURSIVE CalledAll(_, _)
CalledAll(c, names) ==
    IF names = <<>> THEN c ELSE CalledAll(Called(c, Head(names)), Tail(names))

\* Lines 103-115: one update on the training batch: the gradients are
\* cleared, the loss is computed and logged, it is back-propagated, the
\* optimizer updates the parameters in place, and the tracking variables
\* are updated.  content is not read again before it is reassigned.
TrainOnBatch ==
    /\ pc = "update"
    /\ ops' = ops \o UpdateCalls
    /\ calls' = CalledAll(calls, UpdateCalls)
    /\ train_loss_len' = train_loss_len + 1
    /\ params' = params + 1
    /\ nb_tr_examples' = nb_tr_examples + TrackedSize(content)
    /\ nb_tr_steps' = nb_tr_steps + 1
    /\ content' = <<>>
    /\ replayed' = IF source = "replay" THEN replayed \cup {step + 1} ELSE replayed
    /\ lived' = IF source = "live" THEN lived \cup {step + 1} ELSE lived
    /\ live_examples' = IF source = "live" THEN live_examples + Len(batch) ELSE live_examples
    /\ pc' = "next_batch"
    /\ UNCHANGED <<cfgvars, memvars, error, epoch, pulled, step, batch, source,
                   checkpoints, testvars, last_pushed, sampled_from>>

\* Variant: the failure is caught and the loop goes on with the next batch.
UpdateFails_skipped ==
    /\ pc = "update"
    /\ \E k \in 1..Len(UpdateCalls) :
          /\ ops' = ops \o SubSeq(UpdateCalls, 1, k)
          /\ calls' = CalledAll(calls, SubSeq(UpdateCalls, 1, k))
          /\ train_loss_len' = IF k >= 3 THEN train_loss_len + 1 ELSE train_loss_len
    /\ pc' = "next_batch"
    /\ error' = "DeviceError"
    /\ UNCHANGED <<cfgvars, memvars, params, epoch, pulled, step, batch, content, source,
                   nb_tr_examples, nb_tr_steps, checkpoints, testvars,
                   replayed, lived, live_examples, last_pushed, sampled_from>>

\* Lines 103-110: the k-th call of the update (to the optimizer or to the
\* model) fails; there is no handler, the exception leaves train.  The loss
\* has been logged (line 106) when a later call fails.
UpdateFails ==
    /\ pc = "update"
    /\ \E k \in 1..Len(UpdateCalls) :
          /\ ops' = ops \o SubSeq(UpdateCalls, 1, k)
          /\ calls' = CalledAll(calls, SubSeq(UpdateCalls, 1, k))
          /\ train_loss_len' = IF k >= 3 THEN train_loss_len + 1 ELSE train_loss_len
    /\ pc' = "raised"
    /\ error' = "DeviceError"
    /\ UNCHANGED <<cfgvars, memvars, params, epoch, pulled, step, batch, content, source,
                   nb_tr_examples, nb_tr_steps, checkpoints, testvars,
                   replayed, lived, live_examples, last_pushed, sampled_from>>

\* Line 78: the data loader is exhausted; the loop body is left.
StreamExhausted ==
    /\ pc = "next_batch"
    /\ pulled = NumBatches(n_train, batch_size)
    /\ pc' = "epoch_end"
    /\ UNCHANGED <<cfgvars, memvars, params, error, trainvars, checkpoints, testvars, obsvars>>

\* Variant: the file names do not carry the epoch, every checkpoint
\* overwrites the files of the earlier ones.
save_checkpoint_same_file(cps, model_dict, ep, mem) ==
    [i \in 1..(Len(cps) + 1) |->
        IF i <= Len(cps)
        THEN [epoch |-> cps[i].epoch, params |-> model_dict, memory |-> mem]
        ELSE [epoch |-> ep, params |-> model_dict, memory |-> mem]]

\* Lines 126-137: what save_checkpoint writes for an epoch: the two files
\* are named after the epoch and hold the serialized arguments.
save_checkpoint(cps, model_dict, ep, mem) ==
    Append(cps, [epoch |-> ep, params |-> model_dict, memory |-> mem])

\* Lines 117-121: the mean loss is printed (a division by nb_tr_steps) and
\* the checkpoint of the epoch is saved.
EpochEnd ==
    /\ pc = "epoch_end"
    /\ IF nb_tr_steps = 0
       THEN /\ pc' = "raised"
            /\ error' = "ZeroDivisionError"
            /\ UNCHANGED <<epoch, checkpoints>>
       ELSE /\ checkpoints' = save_checkpoint(checkpoints, params, epoch + 1, memory)
            /\ epoch' = epoch + 1
            /\ pc' = "epoch_loop"
            /\ UNCHANGED error
    /\ UNCHANGED <<cfgvars, memvars, params, pulled, step, batch, content, source,
                   nb_tr_examples, nb_tr_steps, train_loss_len, testvars, obsvars>>

\* Line 123: after the last epoch save_trainloss is called without its
\* required argument order, which raises TypeError.
TrainLoopExit ==
    /\ pc = "epoch_loop"
    /\ epoch >= epochs
    /\ pc' = "raised"
    /\ error' = "TypeError"
    /\ UNCHANGED <<cfgvars, memvars, params, trainvars, checkpoints, testvars, obsvars>>

(***************************************************************************)
(* test(order, model).  Accuracies are exact fractions <<num, den>>.       *)
(***************************************************************************)
FracAdd(x, y) == <<x[1] * y[2] + y[1] * x[2], x[2] * y[2]>>

FracDiv(x, k) == <<x[1], x[2] * k>>

FracEq(x, y) == x[1] * y[2] = y[1] * x[2]

\* A row of logits over two classes, and the class ids.
LogitRows == [1..2 -> 0..1]

Labels == 0..1

\* np.argmax over a row: the 0-based index of the first largest entry.
ArgMax(row) ==
    CHOOSE i \in 0..(Len(row) - 1) :
        /\ \A k \in 0..(Len(row) - 1) : row[k + 1] <= row[i + 1]
        /\ \A k \in 0..(i - 1) : row[k + 1] < row[i + 1]

\* Variant: the number of hits is divided by the configured batch size.
flat_accuracy_by_batch_size(preds, labels) ==
    <<Cardinality({i \in 1..Len(labels) : ArgMax(preds[i]) = labels[i]}), batch_size>>

\* Lines 140-146: flat_accuracy(preds, labels).
flat_accuracy(preds, labels) ==
    <<Cardinality({i \in 1..Len(labels) : ArgMax(preds[i]) = labels[i]}), Len(labels)>>

\* The label of a row has the largest logit and no earlier class has it.
Hit(row, label) ==
    /\ \A k \in 1..Len(row) : row[k] <= row[label + 1]
    /\ \A k \in 1..label : row[k] # row[label + 1]

\* Lines 149-165: test is entered; the test set is loaded and the tracking
\* variables are set to 0.
TestBegin ==
    /\ pc = "test_main"
    /\ pc' = "test"
    /\ n_test' \in 1..MaxTestBatches
    /\ t_steps' = 0
    /\ total_correct' = <<0, 1>>
    /\ result' = <<>>
    /\ scored' = <<>>
    /\ UNCHANGED <<cfgvars, memvars, params, error, trainvars, checkpoints, obsvars>>

\* Sizes the next batch of the test DataLoader can have: batch_size, or
\* fewer for the last batch.
TestBatchSizes == IF t_steps + 1 < n_test THEN {batch_size} ELSE 1..batch_size

\* Variant: the batch is used for an optimizer update.
TestStep_updates ==
    /\ pc = "test"
    /\ t_steps < n_test
    /\ t_steps' = t_steps + 1
    /\ params' = params + 1
    /\ calls' = Called(Called(calls, "infer"), "optimizer_step")
    /\ UNCHANGED <<cfgvars, memvars, pc, error, trainvars, checkpoints, n_test,
                   total_correct, result, scored,
                   ops, replayed, lived, live_examples, last_pushed, sampled_from>>

\* Lines 166-185: one batch of the held-out stream (shuffled, so of any
\* content) is inferred and scored; its accuracy is added to total_correct.
TestStep ==
    /\ pc = "test"
    /\ t_steps < n_test
    /\ \E size \in TestBatchSizes :
          \E logits \in [1..size -> LogitRows], labels \in [1..size -> Labels] :
             /\ total_correct' = FracAdd(total_correct, flat_accuracy(logits, labels))
             /\ scored' = Append(scored,
                    <<Cardinality({i \in 1..size : Hit(logits[i], labels[i])}), size>>)
    /\ t_steps' = t_steps + 1
    /\ calls' = Called(calls, "infer")
    /\ UNCHANGED <<cfgvars, memvars, params, pc, error, trainvars, checkpoints, n_test,
                   result, ops, replayed, lived, live_examples, last_pushed, sampled_from>>

\* Lines 186-188: the held-out stream is exhausted; the validation accuracy
\* total_correct / t_steps is printed and test returns.
TestEnd ==
    /\ pc = "test"
    /\ t_steps = n_test
    /\ result' = FracDiv(total_correct, t_steps)
    /\ pc' = "tested"
    /\ UNCHANGED <<cfgvars, memvars, params, error, trainvars, checkpoints,
                   n_test, t_steps, total_correct, scored, obsvars>>

Next ==
    \/ TrainBegin
    \/ EpochBegin
    \/ NextBatch
    \/ PushToMemory
    \/ ReplayBranch
    \/ LiveBranch
    \/ TrainOnBatch
    \/ UpdateFails
    \/ StreamExhausted
    \/ EpochEnd
    \/ TrainLoopExit

Spec == Init /\ [][Next]_vars

(***************************************************************************)
(* The training run with REPLAY_FREQ of line 34 set to a value that is not *)
(* positive.                                                               *)
(***************************************************************************)
InitCfg ==
    /\ capacity \in 1..MaxCapacity
    /\ replay_freq \in (0 - MaxPeriod)..0
    /\ sample_size \in 1..MaxSampleSize
    /\ batch_size \in 1..MaxBatchSize
    /\ n_train \in 0..MaxExamples
    /\ epochs \in 0..MaxEpochs
    /\ n_test = 0
    /\ memory = <<>>
    /\ n_seen = 0
    /\ draws = <<>>
    /\ params = 0
    /\ pc = "main"
    /\ error = ""
    /\ epoch = 0
    /\ pulled = 0
    /\ step = 0
    /\ batch = <<>>
    /\ content = <<>>
    /\ source = "none"
    /\ nb_tr_examples = 0
    /\ nb_tr_steps = 0
    /\ train_loss_len = 0
    /\ checkpoints = <<>>
    /\ t_steps = 0
    /\ total_correct = <<0, 1>>
    /\ result = <<>>
    /\ scored = <<>>
    /\ ops = <<>>
    /\ replayed = {}
    /\ lived = {}
    /\ live_examples = 0
    /\ calls = [c \in CallNames |-> 0]
    /\ last_pushed = <<>>
    /\ sampled_from = <<>>

\* Line 87 with REPLAY_FREQ = 0: the modulo raises ZeroDivisionError, after
\* the push of line 85.
DecideFails ==
    /\ pc = "decide"
    /\ replay_freq = 0
    /\ pc' = "raised"
    /\ error' = "ZeroDivisionError"
    /\ UNCHANGED <<cfgvars, memvars, params, trainvars, checkpoints, testvars, obsvars>>

NextCfg ==
    \/ TrainBegin
    \/ EpochBegin
    \/ NextBatch
    \/ PushToMemory
    \/ DecideFails
    \/ ReplayBranch
    \/ LiveBranch
    \/ TrainOnBatch
    \/ UpdateFails
    \/ StreamExhausted
    \/ EpochEnd
    \/ TrainLoopExit

SpecCfg == InitCfg /\ [][NextCfg]_vars

(***************************************************************************)
(* test called on a model, beside an episodic memory holding examples.     *)
(***************************************************************************)
InitTest ==
    /\ replay_freq = REPLAY_FREQ
    /\ sample_size = 0
    /\ batch_size \in 1..MaxBatchSize
    /\ n_train = 0
    /\ epochs = 0
    /\ capacity \in 1..MaxCapacity
    /\ \E k \in 0..capacity :
          /\ memory = [i \in 1..k |-> i]
          /\ n_seen = k
          /\ params = k
    /\ draws = <<>>
    /\ pc = "test_main"
    /\ error = ""
    /\ epoch = 0
    /\ pulled = 0
    /\ step = 0
    /\ batch = <<>>
    /\ content = <<>>
    /\ source = "none"
    /\ nb_tr_examples = 0
    /\ nb_tr_steps = 0
    /\ train_loss_len = 0
    /\ checkpoints = <<>>
    /\ n_test = 0
    /\ t_steps = 0
    /\ total_correct = <<0, 1>>
    /\ result = <<>>
    /\ scored = <<>>
    /\ ops = <<>>
    /\ replayed = {}
    /\ lived = {}
    /\ live_examples = 0
    /\ calls = [c \in CallNames |-> 0]
    /\ last_pushed = <<>>
    /\ sampled_from = <<>>

NextTest ==
    \/ TestBegin
    \/ TestStep
    \/ TestEnd

SpecTest == InitTest /\ [][NextTest]_vars

(***************************************************************************)
(* The episodic memory on its own: push and sample called directly, in any *)
(* order, on a memory constructed empty.                                   *)
(***************************************************************************)
\* The batches a sequential loader can yield: runs of consecutive examples.
Batches ==
    {[i \in 1..k |-> a + i - 1] : a \in 1..MaxExamples, k \in 1..MaxBatchSize} \cap
    UNION {[1..k -> 1..MaxExamples] : k \in 1..MaxBatchSize}

InitMem ==
    /\ capacity \in 1..MaxCapacity
    /\ replay_freq = REPLAY_FREQ
    /\ sample_size = 0
    /\ batch_size = 0
    /\ n_train = 0
    /\ epochs = 0
    /\ n_test = 0
    /\ memory = <<>>
    /\ n_seen = 0
    /\ draws = <<>>
    /\ params = 0
    /\ pc = "memory_api"
    /\ error = ""
    /\ epoch = 0
    /\ pulled = 0
    /\ step = 0
    /\ batch = <<>>
    /\ content = <<>>
    /\ source = "none"
    /\ nb_tr_examples = 0
    /\ nb_tr_steps = 0
    /\ train_loss_len = 0
    /\ checkpoints = <<>>
    /\ t_steps = 0
    /\ total_correct = <<0, 1>>
    /\ result = <<>>
    /\ scored = <<>>
    /\ ops = <<>>
    /\ replayed = {}
    /\ lived = {}
    /\ live_examples = 0
    /\ calls = [c \in CallNames |-> 0]
    /\ last_pushed = <<>>
    /\ sampled_from = <<>>

\* memory.push(b) for a batch b.
MemPush ==
    /\ pc = "memory_api"
    /\ \E b \in Batches :
          /\ n_seen + Len(b) <= MaxSeen
          /\ \E r \in PushResults(memory, n_seen, capacity, b) :
                /\ memory' = r[1]
                /\ n_seen' = r[2]
    /\ ops' = <<"push">>
    /\ error' = ""
    /\ content' = <<>>
    /\ UNCHANGED <<cfgvars, capacity, draws, params, pc, epoch, pulled, step, batch, source,
                   nb_tr_examples, nb_tr_steps, train_loss_len, checkpoints, testvars,
                   replayed, lived, live_examples, calls, last_pushed, sampled_from>>

\* memory.sample(k): content is the batch returned, error the exception
\* raised instead.
MemSample ==
    /\ pc = "memory_api"
    /\ \E k \in 1..MaxSampleSize :
          /\ sample_size' = k
          /\ IF SampleResults(memory, k) = {}
             THEN /\ error' = "EmptyMemoryError"
                  /\ content' = <<>>
             ELSE /\ error' = ""
                  /\ content' \in SampleResults(memory, k)
    /\ sampled_from' = memory
    /\ ops' = <<"sample">>
    /\ UNCHANGED <<replay_freq, batch_size, n_train, epochs, memvars, params, pc,
                   epoch, pulled, step, batch, source, nb_tr_examples, nb_tr_steps,
                   train_loss_len, checkpoints, testvars, replayed, lived, live_examples,
                   calls, last_pushed>>

NextMem ==
    \/ MemPush
    \/ MemSample

SpecMem == InitMem /\ [][NextMem]_vars

(***************************************************************************)
(* The fairness experiment: distinct examples 1, 2, ... are pushed one at  *)
(* a time into an empty memory, and every draw is recorded.                *)
(***************************************************************************)
InitFair ==
    /\ capacity \in 1..MaxCapacity
    /\ replay_freq = REPLAY_FREQ
    /\ sample_size = 0
    /\ batch_size = 0
    /\ n_train = 0
    /\ epochs = 0
    /\ n_test = 0
    /\ memory = <<>>
    /\ n_seen = 0
    /\ draws = <<>>
    /\ params = 0
    /\ pc = "fairness"
    /\ error = ""
    /\ epoch = 0
    /\ pulled = 0
    /\ step = 0
    /\ batch = <<>>
    /\ content = <<>>
    /\ source = "none"
    /\ nb_tr_examples = 0
    /\ nb_tr_steps = 0
    /\ train_loss_len = 0
    /\ checkpoints = <<>>
    /\ t_steps = 0
    /\ total_correct = <<0, 1>>
    /\ result = <<>>
    /\ scored = <<>>
    /\ ops = <<>>
    /\ replayed = {}
    /\ lived = {}
    /\ live_examples = 0
    /\ calls = [c \in CallNames |-> 0]
    /\ last_pushed = <<>>
    /\ sampled_from = <<>>

\* memory.push of the single example n_seen + 1, with one of its equally
\* likely draws.
FairPush ==
    /\ pc = "fairness"
    /\ n_seen < MaxSeen
    /\ \E j \in SlotDraws(memory, n_seen, capacity) :
          /\ memory' = Insert(memory, capacity, n_seen + 1, j)
          /\ draws' = Append(draws, j)
    /\ n_seen' = n_seen + 1
    /\ UNCHANGED <<cfgvars, capacity, params, pc, error, trainvars, checkpoints,
                   testvars, obsvars>>

NextFair == FairPush

SpecFair == InitFair /\ [][NextFair]_vars

\* The memory after the pushes of examples 1..Len(ds) with the draws ds.
RECURSIVE Replay(_, _)
Replay(cap, ds) ==
    IF ds = <<>>
    THEN <<>>
    ELSE Insert(Replay(cap, SubSeq(ds, 1, Len(ds) - 1)), cap, Len(ds), ds[Len(ds)])

\* All sequences of draws of n pushes; each is as likely as any other,
\* the number of draws of a push depending on the capacity and N only.
RECURSIVE AllDraws(_, _)
AllDraws(cap, n) ==
    IF n = 0
    THEN {<<>>}
    ELSE UNION {{Append(ds, j) : j \in SlotDraws(Replay(cap, ds), n - 1, cap)} :
                  ds \in AllDraws(cap, n - 1)}

DrawTable == [c \in 1..MaxCapacity |-> [n \in 0..MaxSeen |-> AllDraws(c, n)]]

\* In how many of the outcomes of n pushes example e is in the memory.
PresentCount ==
    [c \in 1..MaxCapacity |-> [n \in 0..MaxSeen |-> [e \in 1..MaxSeen |->
        Cardinality({ds \in DrawTable[c][n] : e \in Range(Replay(c, ds))})]]]

(***************************************************************************)
(* Properties of the training loop.                                        *)
(***************************************************************************)
\* Number of batches of one epoch.
M == NumBatches(n_train, batch_size)

\* Steps of the current epoch whose batch has gone through the decision.
InStep == pc \in {"push", "decide", "update"}

\* C1. Capacity invariant: for every capacity C > 0, after every push call
\* (batches of any size, in any epoch) the memory holds at most C examples.
C1_CapacityInvariant == capacity > 0 => Len(memory) <= capacity

\* A push in a later epoch has met a memory that was already full.
C1_Witness ==
    /\ epoch >= 1
    /\ pc = "decide"
    /\ Len(memory) = capacity
    /\ n_seen > capacity + Len(batch)

\* C2. Periodicity: with replay period P > 0 the step with 1-based index i
\* of an epoch is replay-trained exactly when i mod P = 0 and live-trained
\* otherwise; over the M batches of an epoch exactly M div P steps are
\* replay-trained and M - M div P are live-trained; with P = 180 and
\* M = 360 the replay steps are 180 and 360.
\* Steps of the current epoch that were trained: all batches pulled, but
\* for the one in progress and the one whose update failed.
Trained == IF InStep \/ error = "DeviceError" THEN pulled - 1 ELSE pulled

ScenarioReplaySteps == {i \in 1..360 : IsReplayStep(i - 1, REPLAY_FREQ)}

C2_Periodicity ==
    replay_freq > 0 =>
        /\ replayed = {i \in 1..Trained : i % replay_freq = 0}
        /\ lived = {i \in 1..Trained : i % replay_freq # 0}
        /\ pc = "epoch_end" =>
              /\ Cardinality(replayed) = M \div replay_freq
              /\ Cardinality(lived) = M - (M \div replay_freq)
        /\ ScenarioReplaySteps = {180, 360}

\* An epoch has ended with replay steps, live steps and a remainder.
C2_Witness ==
    /\ pc = "epoch_end"
    /\ replayed # {}
    /\ lived # {}
    /\ M % replay_freq # 0

\* C3. Push-before-decision: in every step of every epoch the batch just
\* pulled is pushed exactly once, before the train-vs-replay decision and
\* before any sample call of the step, on live and on replay steps alike.
PushCount(o) == Cardinality({i \in 1..Len(o) : o[i] = "push"})

PushedThisEpoch ==
    IF pc = "push" THEN pulled - 1
    ELSE IF pc \in {"decide", "update", "next_batch", "epoch_end"} THEN pulled
    ELSE 0

C3_PushBeforeDecision ==
    /\ pc = "push" => ops = <<>>
    /\ pc = "decide" => ops = <<"push">> /\ last_pushed = batch
    /\ pc = "update" =>
          /\ Len(ops) = 2
          /\ ops[1] = "push"
          /\ ops[2] = (IF source = "replay" THEN "sample" ELSE "unpack")
          /\ last_pushed = batch
    /\ (pc = "next_batch" /\ pulled > 0) => PushCount(ops) = 1 /\ ops[1] = "push"
    /\ pc \in {"push", "decide", "update", "next_batch", "epoch_end", "epoch_loop"} =>
          calls["push"] = epoch * M + PushedThisEpoch

\* A replay step of a later epoch, between its sample and its update.
C3_Witness ==
    /\ pc = "update"
    /\ source = "replay"
    /\ epoch >= 1
    /\ ops = <<"push", "sample">>

\* A replay step has just been completed (its update applied).
AfterReplayStep == pc = "next_batch" /\ pulled > 0 /\ source = "replay"

\* C4 as stated. Coverage-before-substitution: after any step where replay
\* triggers, the live batch of the step is present in the memory, whatever
\* the capacity, the batch size and the number of examples observed.
C4_Original ==
    (capacity > 0 /\ AfterReplayStep) => Range(batch) \subseteq Range(memory)

\* C4 amended. On any step where replay triggers the live batch has been
\* pushed before the sample is drawn, and all its examples are present in
\* the memory right after the step whenever the number of examples
\* observed so far, that batch included, does not exceed the capacity.
C4_CoverageWhileRoom ==
    (capacity > 0 /\ AfterReplayStep) =>
        /\ last_pushed = batch
        /\ ops[1] = "push"
        /\ ops[2] = "sample"
        /\ n_seen <= capacity => Range(batch) \subseteq Range(memory)

\* A replay step has completed with room for its whole batch.
C4_Witness ==
    /\ AfterReplayStep
    /\ n_seen <= capacity
    /\ Len(batch) = 2
    /\ Range(batch) \subseteq Range(memory)

\* C5 as stated. Determinism of counts: at the end of an epoch the example
\* count equals the number of live-trained batches times the batch size
\* (all batches full); replay-trained steps add nothing.
C5_Original ==
    (pc = "epoch_end" /\ n_train % batch_size = 0) =>
        nb_tr_examples = Cardinality(lived) * batch_size

\* C5 amended. At the end of an epoch the example count equals the total
\* size of the live-trained batches (their number times the batch size when
\* all batches are full) plus the replay sample size for every
\* replay-trained step.
C5_CountsWithReplay ==
    pc = "epoch_end" =>
        /\ nb_tr_examples = live_examples + Cardinality(replayed) * sample_size
        /\ n_train % batch_size = 0 => live_examples = Cardinality(lived) * batch_size

\* An epoch with full batches has ended after live and replay steps.
C5_Witness ==
    /\ pc = "epoch_end"
    /\ n_train % batch_size = 0
    /\ replayed # {}
    /\ lived # {}
    /\ sample_size # batch_size

\* C6. One update per stream batch: an epoch over M batches performs
\* exactly M optimizer updates, one per pulled batch, live or replay, each
\* preceded in its step by a gradient clear, a loss computation and a
\* backward pass in that order; the step count at epoch end is M.
UpdatesThisEpoch ==
    IF pc \in {"push", "decide", "update"} THEN pulled - 1
    ELSE IF pc \in {"next_batch", "epoch_end"} THEN pulled
    ELSE 0

C6_OneUpdatePerBatch ==
    /\ pc \in {"push", "decide", "update", "next_batch", "epoch_end", "epoch_loop"} =>
          /\ calls["optimizer_step"] = epoch * M + UpdatesThisEpoch
          /\ params = calls["optimizer_step"]
    /\ pc \in {"push", "decide", "update", "next_batch", "epoch_end"} =>
          nb_tr_steps = UpdatesThisEpoch
    /\ pc = "epoch_end" => nb_tr_steps = M
    /\ (pc = "next_batch" /\ pulled > 0) =>
          /\ Len(ops) = 6
          /\ ops[2] \in {"sample", "unpack"}
          /\ ops[3] = "zero_grad"
          /\ ops[4] = "classify"
          /\ ops[5] = "backward"
          /\ ops[6] = "optimizer_step"

\* A later epoch has ended after updates on live and on sampled batches.
C6_Witness ==
    /\ pc = "epoch_end"
    /\ epoch >= 1
    /\ nb_tr_steps >= 2
    /\ replayed # {}
    /\ lived # {}

\* C7. No empty-memory sampling in training: for every replay period
\* P >= 1, capacity C >= 1 and stream of non-empty batches, whenever
\* memory.sample is invoked the memory holds at least one example, also
\* with P = 1, where the first step is a replay step.
C7_SampleNeverEmpty ==
    (replay_freq >= 1 /\ capacity >= 1) =>
        /\ (pc = "decide" /\ IsReplayStep(step, replay_freq)) => Len(memory) >= 1
        /\ calls["sample"] > 0 => Len(sampled_from) >= 1
        /\ error # "EmptyMemoryError"

\* With P = 1 the first step of the run has sampled.
C7_Witness ==
    /\ replay_freq = 1
    /\ epoch = 0
    /\ step = 0
    /\ pc = "update"
    /\ source = "replay"
    /\ calls["sample"] = 1

(***************************************************************************)
(* Properties of the memory called directly (SpecMem).                     *)
(***************************************************************************)
\* The last call was sample.
Sampled == pc = "memory_api" /\ ops = <<"sample">>

\* C8. Sample size contract: on a non-empty memory sample(K) returns
\* exactly K examples for any K >= 1, also for K larger than the number of
\* stored examples; every returned example is an element of the current
\* contents, and the contents are left unchanged.
C8_SampleSizeContract ==
    (Sampled /\ sampled_from # <<>>) =>
        /\ error = ""
        /\ sample_size >= 1
        /\ Len(content) = sample_size
        /\ Range(content) \subseteq Range(memory)
        /\ memory = sampled_from

\* More examples were asked for than are stored.
C8_Witness ==
    /\ Sampled
    /\ Len(sampled_from) >= 1
    /\ sample_size > Len(sampled_from)
    /\ Len(content) = sample_size

\* C9. Empty-memory error: sample(K) on a memory holding no example yields
\* the empty-memory error, returns no batch and leaves the memory state
\* unchanged.
C9_EmptyMemoryError ==
    (Sampled /\ sampled_from = <<>>) =>
        /\ error = "EmptyMemoryError"
        /\ content = <<>>
        /\ memory = <<>>
        /\ n_seen = 0

\* sample(2) has been called on the empty memory.
C9_Witness ==
    /\ Sampled
    /\ sampled_from = <<>>
    /\ sample_size = 2
    /\ error = "EmptyMemoryError"

(***************************************************************************)
(* Properties of the evaluation loop.                                      *)
(***************************************************************************)
\* C10. Evaluator frame: test performs no push and no sample on the
\* memory, no gradient or optimizer step, and leaves the memory contents
\* and the model parameters as they were before the call.
C10_EvaluatorFrame ==
    [][(pc = "test" \/ pc' = "test") =>
          /\ memory' = memory
          /\ n_seen' = n_seen
          /\ params' = params
          /\ checkpoints' = checkpoints
          /\ \A c \in CallNames \ {"infer"} : calls'[c] = calls[c]]_vars

\* test has run over two batches on a trained model with a filled memory.
C10_Witness ==
    /\ pc = "tested"
    /\ t_steps = 2
    /\ calls["infer"] = 2
    /\ params > 0
    /\ memory # <<>>

\* C13. Evaluator result: over a stream of n >= 1 batches test reports the
\* arithmetic mean of the n per-batch accuracies, each the number of
\* examples whose label is the argmax of the prediction divided by the
\* size of that batch, so that batches of unequal size weigh the same.
RECURSIVE ProdSizes(_)
ProdSizes(s) == IF s = <<>> THEN 1 ELSE Head(s)[2] * ProdSizes(Tail(s))

RECURSIVE SumOver(_, _)
SumOver(s, d) == IF s = <<>> THEN 0 ELSE Head(s)[1] * (d \div Head(s)[2]) + SumOver(Tail(s), d)

MeanAccuracy(s) == <<SumOver(s, ProdSizes(s)), Len(s) * ProdSizes(s)>>

C13_EvaluatorResult ==
    pc = "tested" =>
        /\ Len(scored) = n_test
        /\ n_test >= 1
        /\ result[2] # 0
        /\ FracEq(result, MeanAccuracy(scored))

\* Two batches of unequal size and accuracy: the mean of the accuracies
\* (1/2) is reported, not the accuracy over all examples (2/3).
C13_Witness ==
    /\ pc = "tested"
    /\ scored = <<<<2, 2>>, <<0, 1>>>>
    /\ FracEq(result, <<1, 2>>)

(***************************************************************************)
(* Properties of checkpointing.                                            *)
(***************************************************************************)
\* C11. Checkpoint snapshot isolation: what is persisted at the end of
\* epoch e are the parameters and the memory contents as of that epoch
\* boundary; pushes and optimizer steps of later epochs do not change what
\* was persisted for epoch e, and saving does not change the live memory.
C11_SnapshotIsolation ==
    [][/\ Len(checkpoints') >= Len(checkpoints)
       /\ \A i \in 1..Len(checkpoints) : checkpoints'[i] = checkpoints[i]
       /\ Len(checkpoints') > Len(checkpoints) =>
             /\ Len(checkpoints') = Len(checkpoints) + 1
             /\ checkpoints'[Len(checkpoints')].params = params
             /\ checkpoints'[Len(checkpoints')].memory = memory
             /\ memory' = memory
             /\ n_seen' = n_seen
             /\ params' = params]_vars

\* During the second epoch the live memory and parameters differ from what
\* the first checkpoint holds.
C11_Witness ==
    /\ Len(checkpoints) = 1
    /\ epoch = 1
    /\ pc = "epoch_end"
    /\ checkpoints[1].memory # memory
    /\ checkpoints[1].params # params

(***************************************************************************)
(* Properties of failures.                                                 *)
(***************************************************************************)
\* C19. Mid-epoch failure: when the model or the optimizer fails at step i
\* of epoch e the error leaves train at once, no later step is executed,
\* no checkpoint is written for epoch e, the checkpoints of the epochs
\* before e are there, and the pushes made up to and including step i
\* stay in the memory.
C19_MidEpochFailure ==
    error = "DeviceError" =>
        /\ pc = "raised"
        /\ Len(checkpoints) = epoch
        /\ \A i \in 1..epoch : checkpoints[i].epoch = i
        /\ params = epoch * M + step
        /\ nb_tr_steps = step
        /\ calls["push"] = epoch * M + step + 1
        /\ last_pushed = batch
        /\ n_seen = epoch * n_train + Min((step + 1) * batch_size, n_train)
        /\ capacity > 0 => Len(memory) = Min(n_seen, capacity)

\* The second step of the second epoch has failed.
C19_Witness ==
    /\ error = "DeviceError"
    /\ epoch = 1
    /\ step = 1
    /\ Len(checkpoints) = 1
    /\ Len(memory) = capacity

(***************************************************************************)
(* Properties of the configuration.                                        *)
(***************************************************************************)
\* C12. Configuration errors: with a replay period <= 0 or a memory of
\* capacity <= 0 no training step is applied, and the error that reaches
\* the caller of train is a ConfigurationError (the TypeError of line 123
\* comes after the last epoch and is left aside).
C12_ConfigurationError ==
    (replay_freq <= 0 \/ capacity <= 0) =>
        /\ params = 0
        /\ calls["optimizer_step"] = 0
        /\ error \notin {"", "TypeError"} => error = "ConfigurationError"

(***************************************************************************)
(* Properties of the reservoir.                                            *)
(***************************************************************************)
\* C14. Reservoir fairness: after N > C distinct examples were pushed into
\* a memory of capacity C, the memory is the outcome of one of the equally
\* likely sequences of draws, and each of the N examples is in the memory
\* in the fraction C/N of these sequences.
C14_ReservoirFairness ==
    (pc = "fairness" /\ n_seen > capacity) =>
        /\ draws \in DrawTable[capacity][n_seen]
        /\ memory = Replay(capacity, draws)
        /\ \A e \in 1..n_seen :
              PresentCount[capacity][n_seen][e] * n_seen =
                 capacity * Cardinality(DrawTable[capacity][n_seen])

\* Five examples went into a memory of two slots; the first one was
\* replaced by the last one.
C14_Witness ==
    /\ pc = "fairness"
    /\ capacity = 2
    /\ n_seen = 5
    /\ memory = <<5, 3>>
    /\ draws = <<0, 0, 2, 4, 1>>

\* C17. Fill-then-replace: a single-example push stores the example while
\* fewer than C examples were observed, so the size is min(N, C); on a
\* full memory the size stays and the push either replaces exactly one
\* slot by the new example or leaves the contents unchanged.
C17_FillThenReplace ==
    [][(pc = "fairness" /\ n_seen' = n_seen + 1) =>
          /\ Len(memory') = Min(n_seen', capacity)
          /\ n_seen < capacity => memory' = Append(memory, n_seen')
          /\ n_seen >= capacity =>
                /\ Len(memory') = Len(memory)
                /\ \/ memory' = memory
                   \/ \E j \in 1..Len(memory) : memory' = [memory EXCEPT ![j] = n_seen']]_vars

\* More pushes than slots: the fifth example replaced the second slot of
\* a memory of two that had kept the first two examples.
C17_Witness ==
    /\ pc = "fairness"
    /\ capacity = 2
    /\ n_seen = 5
    /\ memory = <<1, 5>>

(***************************************************************************)
(* Properties of the epoch.                                                *)
(***************************************************************************)
\* C15. Per-epoch state machine and termination: a step goes from the
\* pull to the push, to the decision, to the update on the live or on the
\* sampled batch, and back to the pull; the epoch is done when the stream
\* is exhausted, after exactly M steps, and being done is a normal end: the
\* next thing is the epoch's checkpoint, not an error.  (A failure of the
\* model or of the optimizer inside the update is no part of this.)
C15_EpochStateMachine ==
    [][/\ pc = "next_batch" => pc' \in {"push", "epoch_end"}
       /\ pc = "push" => pc' = "decide"
       /\ pc = "decide" => pc' = "update" /\ source' \in {"live", "replay"}
       /\ pc = "update" => pc' = "next_batch" \/ error' = "DeviceError"
       /\ pc' = "epoch_end" => nb_tr_steps' = M /\ pulled' = M
       /\ pc = "epoch_end" => pc' = "epoch_loop" /\ error' = ""]_vars

\* C16. Step counter reset: in every epoch the step counter is the number
\* of batches pulled before in that epoch, so the step is replay-trained
\* exactly when its 1-based index within the epoch is a multiple of the
\* replay period, whatever the number of steps of the epochs before.
C16_StepCounterReset ==
    /\ InStep =>
          /\ step = pulled - 1
          /\ step = nb_tr_steps
          /\ step = calls["push"] - epoch * M - (IF pc = "push" THEN 0 ELSE 1)
    /\ (pc = "next_batch" /\ pulled = 0) => nb_tr_steps = 0 /\ replayed = {} /\ lived = {}
    /\ pc = "update" => (source = "replay" <=> (nb_tr_steps + 1) % replay_freq = 0)

\* A replay step of the second epoch whose index counted over the whole
\* run is not a multiple of the period.
C16_Witness ==
    /\ epoch = 1
    /\ pc = "update"
    /\ source = "replay"
    /\ M % replay_freq # 0
    /\ (M + step + 1) % replay_freq # 0

\* C18. Epoch-granular checkpointing: the checkpoints are those of the
\* epochs 1, 2, ... in this order, each with a parameter snapshot and a
\* memory snapshot; inside an epoch the epoch has no checkpoint yet; and
\* when train is left, other than by a failure of the model or of the
\* optimizer, every one of the E epochs has its checkpoint.
C18_CheckpointPerEpoch ==
    /\ \A i \in 1..Len(checkpoints) :
          /\ checkpoints[i].epoch = i
          /\ DOMAIN checkpoints[i] = {"epoch", "params", "memory"}
    /\ pc \in {"next_batch", "push", "decide", "update", "epoch_end"} =>
          Len(checkpoints) = epoch
    /\ (pc = "raised" /\ error # "DeviceError") => Len(checkpoints) = epochs

\* C20. Memory persists across epochs: the memory is never cleared or
\* shrunk and its count of observed examples never goes back; when e
\* epochs are over the count is e times the size of the stream, that is
\* e*M*B when the M batches have B examples each.
C20_MemoryPersists ==
    [][/\ Len(memory') >= Len(memory)
       /\ n_seen' >= n_seen
       /\ capacity' = capacity
       /\ pc' = "epoch_loop" =>
             /\ n_seen' = epoch' * n_train
             /\ Len(memory') = Min(n_seen', capacity)
             /\ n_train = M * batch_size => n_seen' = epoch' * M * batch_size]_vars

\* Two epochs over three batches of one example are over.
C20_Witness ==
    /\ pc = "epoch_loop"
    /\ epoch = 2
    /\ M = 3
    /\ batch_size = 1
    /\ n_seen = 2 * M * batch_size
    /\ Len(memory) = capacity

====
